---- MODULE Spec2Model ----
(***************************************************************************)
(* beanprice price sources: the Financial Times source (sources/ft.py) and *)
(* the Thrift Savings Plan source (sources/tsp.py).                        *)
(*                                                                         *)
(* Time is counted in units of 1/DayUnits of a day since an epoch, so that *)
(* "7 days and some hours" is a representable gap.  Exceptions are records *)
(* [type, msg]; a message is the sequence of the parts it is formatted     *)
(* from, so "the message carries the symbol" is membership in the message. *)
(***************************************************************************)
EXTENDS Integers, Sequences, FiniteSets, TLC

\* ------------------------------------------------------------------ bounds
DayUnits == 2       \* time units per day
MaxLen == 2         \* longest Dates / Values list of a chart response
MaxCalls == 4       \* direct _get_xid calls recorded in xid_calls
MaxRows == 2        \* most data rows of a TSP CSV response

\* ------------------------------------------------------------ small domains
Tickers == {"AAPL:NSQ", "MSFT:NSQ"}
Xids == {"123456", "654321"}
Threads == {1, 2}

Range(s) == {s[i] : i \in DOMAIN s}

SeqsUpTo(S, n) == UNION {[1..m -> S] : m \in 0..n}

\* ------------------------------------------------------------------- state
VARIABLES
    xid_cache,   \* ft.Source._xid_cache: a function from the cached tickers to xids
    xid_calls,   \* the direct _get_xid calls made so far: <<[ticker, xid, raised, fetched]>>
    pc,          \* per thread: its position inside _get_xid
    local,       \* per thread: the locals of its _get_xid frame and its return value
    served,      \* per ticker: the xids the summary page has carried in some get_url reply
    rec          \* the public call that has just returned, or NoCall

vars == <<xid_cache, xid_calls, pc, local, served, rec>>

\* ---------------------------------------------------------------- exceptions
NoExc == [type |-> "none", msg |-> <<>>]

Exc(type, msg) == [type |-> type, msg |-> msg]

\* ----------------------------------------------------- ft.get_url, _get_xid
\* What urlopen(...).read().decode() does for the summary page of a ticker:
\* a URLError, another exception raised while reading, or the page text.  A
\* page is reduced to the xid token it holds: the way the token is written
\* (form) and its digits; form "absent" is a page without a token.
XidForms == {"bare", "quoted", "entity"}

Pages == [form : XidForms, digits : Xids] \cup {[form |-> "absent", digits |-> ""]}

UrlReplies == [kind : {"page"}, page : Pages]
              \cup {[kind |-> k, page |-> [form |-> "absent", digits |-> ""]] :
                      k \in {"URLError", "TimeoutError"}}

SummaryUrl(ticker) == <<"https://markets.ft.com/data/equities/tearsheet/summary?s=", ticker>>

\* get_url: the page text, or FTError for a URLError; anything else escapes raw.
get_url(url, reply) ==
    CASE reply.kind = "page" -> [exc |-> NoExc, content |-> reply.page]
      [] reply.kind = "URLError" ->
            [exc |-> Exc("FTError", <<"Network error fetching">> \o url \o <<"URLError">>),
             content |-> reply.page]
      [] OTHER -> [exc |-> Exc(reply.kind, <<"timed out">>), content |-> reply.page]

\* re.search(pattern, content): the digits of the first xid token, in any of
\* the three spellings the pattern accepts, or no match.
SearchXid(content) ==
    IF content.form \in {"bare", "quoted", "entity"}
    THEN [matched |-> TRUE, group1 |-> content.digits]
    ELSE [matched |-> FALSE, group1 |-> ""]

\* A store that rebuilds the dict with the new entry only.
CachePut_clobber(cache, ticker, xid) == [k \in {ticker} |-> xid]

CachePut(cache, ticker, xid) ==
    [k \in DOMAIN cache \cup {ticker} |-> IF k = ticker THEN xid ELSE cache[k]]

\* _get_xid without line 85: the identifier is returned but never cached.
get_xid_nostore(cache, ticker, reply) ==
    IF ticker \in DOMAIN cache
    THEN [exc |-> NoExc, xid |-> cache[ticker], cache |-> cache, fetched |-> FALSE]
    ELSE LET got == get_url(SummaryUrl(ticker), reply)
             match == SearchXid(got.content)
         IN  IF got.exc # NoExc
             THEN [exc |-> got.exc, xid |-> "", cache |-> cache, fetched |-> TRUE]
             ELSE IF ~match.matched
             THEN [exc |-> Exc("FTError",
                               <<"Could not determine internal FT ID for ticker", ticker>>),
                   xid |-> "", cache |-> cache, fetched |-> TRUE]
             ELSE [exc |-> NoExc, xid |-> match.group1, cache |-> cache, fetched |-> TRUE]

\* Source._get_xid(ticker), run without interruption, on the reply get_url
\* would give: the exception raised or the xid returned, the cache afterwards,
\* and whether get_url was called.
get_xid(cache, ticker, reply) ==
    IF ticker \in DOMAIN cache
    THEN [exc |-> NoExc, xid |-> cache[ticker], cache |-> cache, fetched |-> FALSE]
    ELSE LET got == get_url(SummaryUrl(ticker), reply)
             match == SearchXid(got.content)
         IN  IF got.exc # NoExc
             THEN [exc |-> got.exc, xid |-> "", cache |-> cache, fetched |-> TRUE]
             ELSE IF ~match.matched
             THEN [exc |-> Exc("FTError",
                               <<"Could not determine internal FT ID for ticker", ticker>>),
                   xid |-> "", cache |-> cache, fetched |-> TRUE]
             ELSE [exc |-> NoExc, xid |-> match.group1,
                   cache |-> CachePut(cache, ticker, match.group1), fetched |-> TRUE]

NoCall == [provider |-> "none"]

IdleLocal == [ticker |-> "", content |-> [form |-> "absent", digits |-> ""],
              xid |-> "", ret |-> "", exc |-> NoExc]

Init ==
    /\ xid_cache = << >>
    /\ xid_calls = << >>
    /\ pc = [t \in Threads |-> "idle"]
    /\ local = [t \in Threads |-> IdleLocal]
    /\ served = [k \in Tickers |-> {}]
    /\ rec = NoCall

\* ------------------------------------------- direct, sequential _get_xid calls
\* One call source._get_xid(ticker) from the single-threaded host, as in
\* test_get_xid_regex_variations, with get_url patched to answer `reply`.
CallGetXid(ticker, reply) ==
    LET r == get_xid(xid_cache, ticker, reply)
    IN  /\ Len(xid_calls) < MaxCalls
        /\ xid_cache' = r.cache
        /\ xid_calls' = Append(xid_calls,
                               [ticker |-> ticker, xid |-> r.xid,
                                raised |-> r.exc.type, fetched |-> r.fetched])
        /\ served' = IF r.fetched /\ reply.kind = "page" /\ SearchXid(reply.page).matched
                     THEN [served EXCEPT ![ticker] = @ \cup {SearchXid(reply.page).group1}]
                     ELSE served
        /\ UNCHANGED <<pc, local, rec>>

NextXid == \E ticker \in Tickers, reply \in UrlReplies : CallGetXid(ticker, reply)

SpecXid == Init /\ [][NextXid]_vars

\* C1: on one Source, used from one thread, all successful _get_xid calls for a
\* ticker return the same identifier, the first of them is the only call for
\* that ticker that reaches get_url from then on, and every later call for the
\* ticker is served from _xid_cache (it neither fetches nor raises).
C1_CachedXidFetchedOnce ==
    \A i \in DOMAIN xid_calls :
        xid_calls[i].raised = "none" =>
            \A j \in DOMAIN xid_calls :
                (j > i /\ xid_calls[j].ticker = xid_calls[i].ticker) =>
                    /\ xid_calls[j].raised = "none"
                    /\ xid_calls[j].xid = xid_calls[i].xid
                    /\ ~xid_calls[j].fetched
                    /\ \E f \in 1..i : /\ xid_calls[f].ticker = xid_calls[i].ticker
                                       /\ xid_calls[f].raised = "none"
                                       /\ xid_calls[f].fetched
                                       /\ xid_calls[f].xid = xid_calls[j].xid

\* Two successful calls for one ticker, the first of which fetched, with a
\* fetching call for another ticker in between.
C1_Witness ==
    \E i, m, j \in DOMAIN xid_calls :
        /\ i < m /\ m < j
        /\ xid_calls[i].ticker = xid_calls[j].ticker
        /\ xid_calls[m].ticker # xid_calls[i].ticker
        /\ xid_calls[i].raised = "none" /\ xid_calls[i].fetched
        /\ xid_calls[j].raised = "none"
        /\ xid_calls[m].raised = "none" /\ xid_calls[m].fetched
        /\ xid_calls[m].xid # xid_calls[i].xid

\* --------------------------------------- _get_xid run by concurrent threads
\* The statements of _get_xid as separate steps of a thread; a dict lookup, a
\* dict store and a get_url call are each one step.
Begin(t, ticker) ==
    /\ pc[t] \in {"idle", "done"}
    /\ pc' = [pc EXCEPT ![t] = "check"]
    /\ local' = [local EXCEPT ![t] = [IdleLocal EXCEPT !.ticker = ticker]]
    /\ UNCHANGED <<xid_cache, xid_calls, served, rec>>

\* line 69: if ticker in self._xid_cache
Check(t) ==
    /\ pc[t] = "check"
    /\ pc' = [pc EXCEPT ![t] = IF local[t].ticker \in DOMAIN xid_cache THEN "hit" ELSE "fetch"]
    /\ UNCHANGED <<xid_cache, xid_calls, local, served, rec>>

\* line 70: return self._xid_cache[ticker]
Hit(t) ==
    /\ pc[t] = "hit"
    /\ pc' = [pc EXCEPT ![t] = "done"]
    /\ local' = [local EXCEPT ![t].ret = xid_cache[local[t].ticker]]
    /\ UNCHANGED <<xid_cache, xid_calls, served, rec>>

\* lines 72-73: content = get_url(url)
Fetch(t, reply) ==
    LET got == get_url(SummaryUrl(local[t].ticker), reply)
    IN  /\ pc[t] = "fetch"
        /\ pc' = [pc EXCEPT ![t] = IF got.exc = NoExc THEN "search" ELSE "done"]
        /\ local' = [local EXCEPT ![t].content = got.content, ![t].exc = got.exc]
        /\ served' = IF reply.kind = "page" /\ SearchXid(reply.page).matched
                     THEN [served EXCEPT ![local[t].ticker] =
                                            @ \cup {SearchXid(reply.page).group1}]
                     ELSE served
        /\ UNCHANGED <<xid_cache, xid_calls, rec>>

\* lines 76-84: match = re.search(...); raise FTError or xid = match.group(1)
Search(t) ==
    LET match == SearchXid(local[t].content)
    IN  /\ pc[t] = "search"
        /\ pc' = [pc EXCEPT ![t] = IF match.matched THEN "write" ELSE "done"]
        /\ local' = [local EXCEPT
                        ![t].xid = match.group1,
                        ![t].exc = IF match.matched THEN NoExc
                                   ELSE Exc("FTError",
                                            <<"Could not determine internal FT ID for ticker",
                                              local[t].ticker>>)]
        /\ UNCHANGED <<xid_cache, xid_calls, served, rec>>

\* line 85: self._xid_cache[ticker] = xid
Write(t) ==
    /\ pc[t] = "write"
    /\ pc' = [pc EXCEPT ![t] = "return"]
    /\ xid_cache' = CachePut(xid_cache, local[t].ticker, local[t].xid)
    /\ UNCHANGED <<xid_calls, local, served, rec>>

\* line 86: return xid
Return(t) ==
    /\ pc[t] = "return"
    /\ pc' = [pc EXCEPT ![t] = "done"]
    /\ local' = [local EXCEPT ![t].ret = local[t].xid]
    /\ UNCHANGED <<xid_cache, xid_calls, served, rec>>

NextRace ==
    \E t \in Threads :
        \/ \E ticker \in Tickers : Begin(t, ticker)
        \/ Check(t)
        \/ Hit(t)
        \/ \E reply \in UrlReplies : Fetch(t, reply)
        \/ Search(t)
        \/ Write(t)
        \/ Return(t)

SpecRace == Init /\ [][NextRace]_vars

Returned(t) == pc[t] = "done" /\ local[t].exc = NoExc

\* C9: under every interleaving of the threads' _get_xid steps, a thread that
\* returns gets an identifier the summary page of its ticker has carried, the
\* ticker it resolved has an entry in the cache, and every cache entry holds
\* an identifier the page of its own ticker has carried.
C9_RaceKeepsCacheCorrect ==
    /\ \A t \in Threads :
          Returned(t) =>
              /\ local[t].ret \in served[local[t].ticker]
              /\ local[t].ticker \in DOMAIN xid_cache
    /\ DOMAIN xid_cache \subseteq Tickers
    /\ \A k \in DOMAIN xid_cache : xid_cache[k] \in served[k]

\* Both threads resolved the same ticker for the first time, both fetched (the
\* duplicate fetch) and got different identifiers; the cache holds one of them.
C9_Witness ==
    /\ \A t \in Threads : Returned(t) /\ local[t].content.form \in XidForms
    /\ local[1].ticker = local[2].ticker
    /\ local[1].ret # local[2].ret
    /\ xid_cache[local[1].ticker] \in {local[1].ret, local[2].ret}

\* ------------------------------------------------- ft.post_json, JSON values
\* A JSON object is a function from its keys; dict.get(key, default):
DictGet(d, key, default) == IF key \in DOMAIN d THEN d[key] ELSE default

\* Entries of the "Dates" list: an ISO-8601 string for time t, a string that
\* is no date, or a JSON null.  Entries of a "Values" list: a number, a JSON
\* null, or a string that is no number.
SampleTimes == {0, 1}
Prices == {1, 2}
NoDateText == [k |-> "text", t |-> 0]
NullDate == [k |-> "null", t |-> 0]
DateEntries == [k : {"iso"}, t : SampleTimes] \cup {NoDateText, NullDate}
NullValue == [k |-> "null", n |-> 0]
NoNumberText == [k |-> "text", n |-> 0]
ValueEntries == [k : {"num"}, n : Prices] \cup {NullValue, NoNumberText}

\* The "Elements" lists tried: none, one without a price element, a price
\* element without ComponentSeries, without a Close series, with a Close
\* series without Values, and with Open and Close series.
CloseElements(values) ==
    << [Type |-> "volume"],
       [Type |-> "price",
        ComponentSeries |-> << [Type |-> "Open", Values |-> << >>],
                               [Type |-> "Close", Values |-> values] >>] >>

ElementsTried ==
    { << >>,
      << [Type |-> "volume"] >>,
      << [Type |-> "price"] >>,
      << [Type |-> "price", ComponentSeries |-> << [Type |-> "Open", Values |-> << >>] >>] >>,
      << [Type |-> "price", ComponentSeries |-> << [Type |-> "Close"] >>] >> }
    \cup {CloseElements(v) : v \in SeqsUpTo(ValueEntries, MaxLen)}

ChartObjects ==
    {[Dates |-> d, Elements |-> e] : d \in SeqsUpTo(DateEntries, MaxLen), e \in ElementsTried}
    \cup {[Dates |-> d] : d \in SeqsUpTo(DateEntries, MaxLen)}
    \cup {[Elements |-> e] : e \in ElementsTried}

NoData == [Dates |-> << >>]

\* What urlopen/read and json.loads make of the chart request: a URLError,
\* another exception, a body that is no JSON, a JSON array, or a JSON object.
PostReplies ==
    {[kind |-> k, data |-> NoData] : k \in {"URLError", "TimeoutError", "nojson", "array"}}
    \cup {[kind |-> "object", data |-> d] : d \in ChartObjects}

ChartUrl == <<"https://markets.ft.com/data/chartapi/series">>

\* post_json: the body, or FTError for a URLError; anything else escapes raw.
post_json(url, reply) ==
    CASE reply.kind = "URLError" ->
            Exc("FTError", <<"Network error posting to">> \o url \o <<"URLError">>)
      [] reply.kind = "TimeoutError" -> Exc("TimeoutError", <<"timed out">>)
      [] OTHER -> NoExc

\* datetime.fromisoformat(d_str): TypeError unless d_str is a string,
\* ValueError unless the string is a date; .replace(tzinfo=utc) keeps the
\* wall-clock reading as the UTC instant.
fromisoformat(d) ==
    CASE d.k = "null" -> [exc |-> Exc("TypeError", <<"fromisoformat: argument must be str">>),
                          time |-> 0]
      [] d.k = "text" -> [exc |-> Exc("ValueError", <<"Invalid isoformat string">>), time |-> 0]
      [] OTHER -> [exc |-> NoExc, time |-> d.t]

\* Decimal(str(v)) for a parsed JSON value v.
DecimalOfStr(v) ==
    IF v.k = "num"
    THEN [exc |-> NoExc, price |-> v.n]
    ELSE [exc |-> Exc("InvalidOperation", <<"ConversionSyntax">>), price |-> 0]

\* The loop of _fetch_history (lines 128-142) from index i on, history so far acc.
RECURSIVE PairRows(_, _, _, _)
PairRows(dates, closes, i, acc) ==
    IF i > Len(dates) THEN [exc |-> NoExc, history |-> acc]
    ELSE IF ~(i <= Len(closes) /\ closes[i] # NullValue)
    THEN PairRows(dates, closes, i + 1, acc)
    ELSE LET dt == fromisoformat(dates[i])
             dec == DecimalOfStr(closes[i])
         IN  IF dt.exc.type = "ValueError"
             THEN PairRows(dates, closes, i + 1, acc)
             ELSE IF dt.exc # NoExc THEN [exc |-> dt.exc, history |-> << >>]
             ELSE IF dec.exc.type = "ValueError"
             THEN PairRows(dates, closes, i + 1, acc)
             ELSE IF dec.exc # NoExc THEN [exc |-> dec.exc, history |-> << >>]
             ELSE PairRows(dates, closes, i + 1,
                           Append(acc, [time |-> dt.time, price |-> dec.price]))

\* next((x for x in seq if x.get("Type") == type), None): position, 0 for None.
FirstOfType(seq, type) ==
    LET hits == {i \in DOMAIN seq : DictGet(seq[i], "Type", "") = type}
    IN  IF hits = {} THEN 0 ELSE CHOOSE i \in hits : \A j \in hits : i <= j

\* Lines 113-142 of _fetch_history on the decoded JSON object.
SeriesOf(data) ==
    LET dates == DictGet(data, "Dates", << >>)
        elements == DictGet(data, "Elements", << >>)
        p == FirstOfType(elements, "price")
        ohlc == DictGet(elements[p], "ComponentSeries", << >>)
        c == FirstOfType(ohlc, "Close")
        closes == IF c = 0 THEN << >> ELSE DictGet(ohlc[c], "Values", << >>)
    IN  IF dates = << >> \/ elements = << >> THEN [exc |-> NoExc, history |-> << >>]
        ELSE IF p = 0 THEN [exc |-> NoExc, history |-> << >>]
        ELSE PairRows(dates, closes, 1, << >>)

\* Source._fetch_history(ticker, days): the exception raised or the history
\* returned, the cache afterwards, and the lookback sent (0: no request).
fetch_history(cache, ticker, days, urlReply, postReply) ==
    LET x == get_xid(cache, ticker, urlReply)
        posted == post_json(ChartUrl, postReply)
        series == SeriesOf(postReply.data)
    IN  IF x.exc # NoExc
        THEN [exc |-> x.exc, history |-> << >>, cache |-> x.cache, days |-> 0]
        ELSE IF posted # NoExc
        THEN [exc |-> posted, history |-> << >>, cache |-> x.cache, days |-> days]
        ELSE IF postReply.kind = "nojson"
        THEN [exc |-> Exc("FTError", <<"Invalid JSON response from FT for", ticker>>),
              history |-> << >>, cache |-> x.cache, days |-> days]
        ELSE IF postReply.kind = "array"
        THEN [exc |-> Exc("AttributeError", <<"'list' object has no attribute 'get'">>),
              history |-> << >>, cache |-> x.cache, days |-> days]
        ELSE [exc |-> series.exc, history |-> series.history, cache |-> x.cache,
              days |-> days]

\* ------------------------------------------------------- ft.Source facade
LatestDays == 5        \* get_latest_price: self._fetch_history(ticker, 5)
BufferDays == 7        \* get_historical_price: (now - time).days + 7
MinDays == 30          \* get_historical_price: max(days_diff, 30)
StaleDays == 7         \* get_historical_price: (time - best_match["time"]).days <= 7

\* A datetime argument: its wall-clock reading and its tzinfo (None for a
\* naive one).  "east" is a fixed offset of one time unit ahead of UTC.
UtcOffset(tz) == IF tz = "east" THEN 1 ELSE 0

Walls == {0, 1, 7 * DayUnits, 7 * DayUnits + 1, 8 * DayUnits}

QueryTimes == [tz : {"naive"}, wall : Walls]
              \cup [tz : {"utc"}, wall : {0, 7 * DayUnits}]
              \cup [tz : {"east"}, wall : {1, 8 * DayUnits + 1}]

\* datetime.now(timezone.utc) at the call
Nows == {30 * DayUnits}

\* lines 165-166: a naive time gets tzinfo=UTC; the instant an aware one denotes.
Instant(q) == IF q.tz = "naive" THEN q.wall ELSE q.wall - UtcOffset(q.tz)

\* timedelta.days: whole days, rounded down.
DaysOf(delta) == delta \div DayUnits

Max(a, b) == IF a >= b THEN a ELSE b

\* lines 169-173: the lookback asked of the chart API.
LookbackDays(now, time) == Max(Max(DaysOf(now - time) + BufferDays, 1), MinDays)

\* list.sort(key=lambda x: x["time"]): stable, ascending.
RECURSIVE InsertByTime(_, _)
InsertByTime(sorted, e) ==
    IF sorted = << >> THEN <<e>>
    ELSE IF sorted[Len(sorted)].time <= e.time THEN Append(sorted, e)
    ELSE Append(InsertByTime(SubSeq(sorted, 1, Len(sorted) - 1), e), sorted[Len(sorted)])

\* No sort at all: the history is scanned in the order it was delivered.
SortByTime_none(h) == h

RECURSIVE SortByTime(_)
SortByTime(h) ==
    IF h = << >> THEN << >>
    ELSE InsertByTime(SortByTime(SubSeq(h, 1, Len(h) - 1)), h[Len(h)])

\* A forward scan: the oldest entry with time <= T.
BestMatch_oldest(history, time) ==
    LET ok == {i \in DOMAIN history : history[i].time <= time}
    IN  IF ok = {} THEN 0 ELSE CHOOSE i \in ok : \A j \in ok : i <= j

\* lines 180-184: the first entry of reversed(history) with time <= T; 0: none.
BestMatch(history, time) ==
    LET ok == {i \in DOMAIN history : history[i].time <= time}
    IN  IF ok = {} THEN 0 ELSE CHOOSE i \in ok : \A j \in ok : j <= i

NoPrice == [out |-> "none", price |-> 0, time |-> 0, currency |-> "None", exc |-> NoExc]

SourcePrice(price, time, currency) ==
    [out |-> "price", price |-> price, time |-> time, currency |-> currency, exc |-> NoExc]

Raise(exc) == [out |-> "raise", price |-> 0, time |-> 0, currency |-> "None", exc |-> exc]

\* The gap compared as a duration: time - t <= timedelta(days=7).
NotStale_exact(time, t) == time - t <= StaleDays * DayUnits

\* line 188: (time - best_match["time"]).days <= 7
NotStale(time, t) == DaysOf(time - t) <= StaleDays

\* lines 174-191: what get_historical_price makes of a fetched history.
SelectAsOf(fetched, time) ==
    LET history == SortByTime(fetched)
        b == BestMatch(history, time)
    IN  IF fetched = << >> THEN NoPrice
        ELSE IF b # 0 /\ NotStale(time, history[b].time)
        THEN SourcePrice(history[b].price, history[b].time, "None")
        ELSE NoPrice

\* lines 149-153: what get_latest_price makes of a fetched history.
SelectLatest(fetched) ==
    IF fetched = << >> THEN NoPrice
    ELSE SourcePrice(fetched[Len(fetched)].price, fetched[Len(fetched)].time, "None")

\* The except clauses of the two public methods of ft.Source.
FTWrap(exc, ticker, where) ==
    IF exc.type = "FTError"
    THEN Exc("FTError", exc.msg \o <<"(ticker:", ticker, ")">>)
    ELSE Exc("FTError", <<"Unexpected error for ticker", ticker>> \o where \o exc.msg)

\* The tickers the host asks prices for, and the summary-page replies tried.
FTSymbols == {"AAPL:NSQ"}

FTUrlReplies ==
    {r \in UrlReplies : r.kind # "page" \/ r.page.form = "absent"
                        \/ (r.page.form = "quoted" /\ r.page.digits = "123456")}

\* ft.Source.get_latest_price(ticker)
FTGetLatestPrice ==
    /\ rec = NoCall
    /\ \E ticker \in FTSymbols, urlReply \in FTUrlReplies, postReply \in PostReplies :
        LET f == fetch_history(xid_cache, ticker, LatestDays, urlReply, postReply)
        IN  /\ xid_cache' = f.cache
            /\ rec' = [provider |-> "ft", op |-> "latest", symbol |-> ticker,
                       time |-> [tz |-> "utc", wall |-> 0], days |-> f.days,
                       reply |-> postReply, raised |-> f.exc, history |-> f.history,
                       result |-> IF f.exc # NoExc THEN Raise(FTWrap(f.exc, ticker, << >>))
                                  ELSE SelectLatest(f.history)]
    /\ UNCHANGED <<xid_calls, pc, local, served>>

\* ft.Source.get_historical_price(ticker, time), called at instant now
FTGetHistoricalPrice ==
    /\ rec = NoCall
    /\ \E ticker \in FTSymbols, q \in QueryTimes, now \in Nows,
          urlReply \in FTUrlReplies, postReply \in PostReplies :
        LET time == Instant(q)
            f == fetch_history(xid_cache, ticker, LookbackDays(now, time),
                               urlReply, postReply)
        IN  /\ xid_cache' = f.cache
            /\ rec' = [provider |-> "ft", op |-> "historical", symbol |-> ticker,
                       time |-> q, days |-> f.days,
                       reply |-> postReply, raised |-> f.exc, history |-> f.history,
                       result |-> IF f.exc # NoExc
                                  THEN Raise(FTWrap(f.exc, ticker, <<"at", ToString(time)>>))
                                  ELSE SelectAsOf(f.history, time)]
    /\ UNCHANGED <<xid_calls, pc, local, served>>

\* ------------------------------------------------------------ tsp.Source
TSP_FUND_NAMES ==
    <<"LInco", "L2030", "L2035", "L2040", "L2045", "L2050", "L2055", "L2060",
      "L2065", "L2070", "L2075", "GFund", "FFund", "CFund", "SFund", "IFund">>

\* names, in parse_tsp_csv: the CSV column of each fund, in the same order.
ColumnNames ==
    <<"L Income", "L 2030", "L 2035", "L 2040", "L 2045", "L 2050", "L 2055", "L 2060",
      "L 2065", "L 2070", "L 2075", "G Fund", "F Fund", "C Fund", "S Fund", "I Fund">>

CURRENCY == "USD"

LookbackTSP == 14      \* startdate: time - datetime.timedelta(days=14)

\* list.index(x): the first position of x (only used for an x in the list).
IndexOf(seq, x) == CHOOSE i \in DOMAIN seq : seq[i] = x /\ \A j \in 1..(i - 1) : seq[j] # x

\* A CSV data row as csv.DictReader yields it: the text of its Date cell (a
\* day number stands for its "%Y-%m-%d" text) and of its "G Fund" cell; the
\* other fund cells hold "10".
BlankDate == [k |-> "blank", d |-> 0]
BadDate == [k |-> "text", d |-> 0]
DateCells == [k : {"date"}, d : {1, 2}] \cup {BlankDate, BadDate}
Cells == {"", "n/a", "17"}
Rows == [Date : DateCells, G : Cells]

CellOf(row, name) == IF name = "G Fund" THEN row.G ELSE "10"

\* What requests.get(url, ...) does: raises, or answers with a status and a
\* CSV body whose header row has or lacks the Date column.
TSPReplies ==
    {[kind |-> "RequestsError", ok |-> FALSE, status |-> 0, header |-> "full", rows |-> << >>],
     [kind |-> "response", ok |-> FALSE, status |-> 500, header |-> "full", rows |-> << >>]}
    \cup [kind : {"response"}, ok : {TRUE}, status : {200}, header : {"full", "nodate"},
          rows : SeqsUpTo(Rows, MaxRows)]

\* Decimal(row[name]) if row[name] else Decimal()
CellDecimal(text) ==
    CASE text = "" -> [exc |-> NoExc, price |-> 0]
      [] text = "10" -> [exc |-> NoExc, price |-> 10]
      [] text = "17" -> [exc |-> NoExc, price |-> 17]
      [] OTHER -> [exc |-> Exc("InvalidOperation", <<"ConversionSyntax">>), price |-> 0]

\* date.replace(hour=16, tzinfo=TIMEZONE) for day d, in hours UTC since the epoch.
TradeTime(d) == d * 24 + 16 + 4

\* The list comprehension of lines 100-102, from column i on.
RECURSIVE RowPrices(_, _, _)
RowPrices(row, i, acc) ==
    IF i > Len(ColumnNames) THEN [exc |-> NoExc, prices |-> acc]
    ELSE LET c == CellDecimal(CellOf(row, ColumnNames[i]))
         IN  IF c.exc # NoExc THEN [exc |-> c.exc, prices |-> << >>]
             ELSE RowPrices(row, i + 1, Append(acc, c.price))

\* data[date] = [...]: a later row of the same date replaces the earlier one.
PutDay(data, time, prices) ==
    IF \E i \in DOMAIN data : data[i].time = time
    THEN [i \in DOMAIN data |-> IF data[i].time = time
                                THEN [time |-> time, prices |-> prices] ELSE data[i]]
    ELSE Append(data, [time |-> time, prices |-> prices])

\* sorted(data.items(), key=lambda t: t[0], reverse=True); the keys are distinct.
RECURSIVE NewestFirst(_)
NewestFirst(data) ==
    IF data = << >> THEN << >>
    ELSE LET m == CHOOSE i \in DOMAIN data : \A j \in DOMAIN data : data[j].time <= data[i].time
         IN  <<data[m]>> \o NewestFirst(SubSeq(data, 1, m - 1) \o SubSeq(data, m + 1, Len(data)))

\* parse_tsp_csv: the loop over the rows from row i on, then the sort.
RECURSIVE parse_tsp_csv(_, _, _)
parse_tsp_csv(reply, i, data) ==
    IF i > Len(reply.rows) THEN [exc |-> NoExc, result |-> NewestFirst(data)]
    ELSE IF reply.header = "nodate" THEN [exc |-> Exc("KeyError", <<"Date">>), result |-> << >>]
    ELSE IF reply.rows[i].Date = BlankDate THEN parse_tsp_csv(reply, i + 1, data)
    ELSE IF reply.rows[i].Date = BadDate
    THEN [exc |-> Exc("ValueError", <<"time data does not match format '%Y-%m-%d'">>),
          result |-> << >>]
    ELSE LET p == RowPrices(reply.rows[i], 1, << >>)
         IN  IF p.exc # NoExc THEN [exc |-> p.exc, result |-> << >>]
             ELSE parse_tsp_csv(reply, i + 1,
                                PutDay(data, TradeTime(reply.rows[i].Date.d), p.prices))

\* parse_response
parse_response(reply) ==
    IF ~reply.ok
    THEN [exc |-> Exc("TSPError", <<"Error from TSP Parsing Status", ToString(reply.status)>>),
          result |-> << >>]
    ELSE parse_tsp_csv(reply, 1, << >>)

\* Lines 138-160 of tsp.Source.get_historical_price: the request and what is
\* made of the reply.
tsp_request(fund, time, reply) ==
    LET parsed == parse_response(reply)
        sent == [startdate |-> time - LookbackTSP, enddate |-> time]
    IN  [requests |-> <<sent>>,
         result |->
            IF reply.kind = "RequestsError"
            THEN Raise(Exc("RequestsError", <<"Failed to perform">>))
            ELSE IF parsed.exc # NoExc THEN Raise(parsed.exc)
            ELSE IF parsed.result = << >> THEN Raise(Exc("StopIteration", << >>))
            ELSE SourcePrice(parsed.result[1].prices[IndexOf(TSP_FUND_NAMES, fund)],
                             parsed.result[1].time, CURRENCY)]

\* The fund code checked only once the reply is in.
tsp_get_historical_price_late(fund, time, reply) ==
    IF fund \notin Range(TSP_FUND_NAMES)
    THEN [requests |-> <<[startdate |-> time - LookbackTSP, enddate |-> time]>>,
          result |-> Raise(Exc("TSPError", <<"Invalid TSP Fund Name", fund, "Valid Funds are:">>
                                           \o TSP_FUND_NAMES))]
    ELSE tsp_request(fund, time, reply)

\* tsp.Source.get_historical_price(fund, time): the requests.get calls made
\* and the result.
tsp_get_historical_price(fund, time, reply) ==
    IF fund \notin Range(TSP_FUND_NAMES)
    THEN [requests |-> << >>,
          result |-> Raise(Exc("TSPError", <<"Invalid TSP Fund Name", fund, "Valid Funds are:">>
                                           \o TSP_FUND_NAMES))]
    ELSE tsp_request(fund, time, reply)

\* The funds and days the host asks for; the day datetime.now() falls on.
TSPFundsTried == {"GFund", "CFund", "TFund"}
TSPDays == {20}
TSPNows == {30}

TSPGetHistoricalPrice ==
    /\ rec = NoCall
    /\ \E fund \in TSPFundsTried, time \in TSPDays, reply \in TSPReplies :
        LET r == tsp_get_historical_price(fund, time, reply)
        IN  rec' = [provider |-> "tsp", op |-> "historical", symbol |-> fund,
                    time |-> time, requests |-> r.requests, reply |-> reply,
                    result |-> r.result]
    /\ UNCHANGED <<xid_cache, xid_calls, pc, local, served>>

\* tsp.Source.get_latest_price(fund): get_historical_price(fund, datetime.now())
TSPGetLatestPrice ==
    /\ rec = NoCall
    /\ \E fund \in TSPFundsTried, now \in TSPNows, reply \in TSPReplies :
        LET r == tsp_get_historical_price(fund, now, reply)
        IN  rec' = [provider |-> "tsp", op |-> "latest", symbol |-> fund,
                    time |-> now, requests |-> r.requests, reply |-> reply,
                    result |-> r.result]
    /\ UNCHANGED <<xid_cache, xid_calls, pc, local, served>>

\* The host drops the record it was handed and is ready for the next call.
Discard ==
    /\ rec # NoCall
    /\ rec' = NoCall
    /\ UNCHANGED <<xid_cache, xid_calls, pc, local, served>>

Next ==
    \/ FTGetLatestPrice
    \/ FTGetHistoricalPrice
    \/ TSPGetLatestPrice
    \/ TSPGetHistoricalPrice
    \/ Discard

Spec == Init /\ [][Next]_vars

\* ------------------------------------------------------------- properties
FTHistorical == rec.provider = "ft" /\ rec.op = "historical"
FTLatest == rec.provider = "ft" /\ rec.op = "latest"
TSPCall == rec.provider = "tsp"

\* _fetch_history returned a series (it did not raise).
Fetched == rec.provider = "ft" /\ rec.raised = NoExc

\* A naive query time read as UTC, an aware one as the instant it denotes.
QueryInstant == IF rec.time.tz = "east" THEN rec.time.wall - 1 ELSE rec.time.wall

TimesAtOrBefore(h, T) == {h[i].time : i \in {j \in DOMAIN h : h[j].time <= T}}

Latest(S) == CHOOSE x \in S : \A y \in S : y <= x

\* C2: get_historical_price is an as-of lookup.  A returned sample is one of
\* the fetched series, its time is <= T (T itself is eligible), no sample of
\* the series lies after it and at or before T, and when every sample is
\* later than T the result is None.
C2_AsOfLookup ==
    (FTHistorical /\ Fetched) =>
        LET T == QueryInstant
            h == rec.history
            r == rec.result
        IN  /\ r.out \in {"price", "none"}
            /\ r.out = "price" =>
                  /\ r.time <= T
                  /\ \E i \in DOMAIN h : h[i].time = r.time /\ h[i].price = r.price
                  /\ \A i \in DOMAIN h : ~(h[i].time <= T /\ h[i].time > r.time)
            /\ TimesAtOrBefore(h, T) = {} => r.out = "none"

\* A naive query: the series holds a sample after T and one exactly at T,
\* delivered in that order, and the one at T is returned.
C2_Witness ==
    /\ FTHistorical /\ Fetched /\ rec.time.tz = "naive"
    /\ rec.result.out = "price" /\ rec.result.time = QueryInstant
    /\ \E i, j \in DOMAIN rec.history :
          /\ i < j
          /\ rec.history[i].time > QueryInstant
          /\ rec.history[j].time = QueryInstant

\* C3 as claimed: the nearest sample at or before T is returned when T is at
\* most exactly 7 days after it, and None is returned when T is any longer
\* after it.
C3_StaleAfterExactly7Days ==
    (FTHistorical /\ Fetched /\ TimesAtOrBefore(rec.history, QueryInstant) # {}) =>
        LET gap == QueryInstant - Latest(TimesAtOrBefore(rec.history, QueryInstant))
        IN  IF gap > StaleDays * DayUnits
            THEN rec.result.out = "none"
            ELSE rec.result.out = "price" /\ rec.result.time = QueryInstant - gap

\* C3 as amended: the gap is counted in whole days, rounded down.  The nearest
\* sample at or before T is returned when T is less than 8 days after it
\* (exactly 7 days, and 7 days and some hours, included), and None is returned
\* when T is 8 days or more after it.
C3_StaleAfter7WholeDays ==
    (FTHistorical /\ Fetched /\ TimesAtOrBefore(rec.history, QueryInstant) # {}) =>
        LET gap == QueryInstant - Latest(TimesAtOrBefore(rec.history, QueryInstant))
        IN  IF gap >= (StaleDays + 1) * DayUnits
            THEN rec.result.out = "none"
            ELSE rec.result.out = "price" /\ rec.result.time = QueryInstant - gap

\* T is 7 days and a part of a day after the nearest sample, which is returned.
C3_Witness ==
    /\ FTHistorical /\ Fetched /\ TimesAtOrBefore(rec.history, QueryInstant) # {}
    /\ LET gap == QueryInstant - Latest(TimesAtOrBefore(rec.history, QueryInstant))
       IN  gap > StaleDays * DayUnits /\ gap < (StaleDays + 1) * DayUnits
    /\ rec.result.out = "price"

Reverse(h) == [i \in DOMAIN h |-> h[Len(h) + 1 - i]]

Ascending(h) == \A i, j \in DOMAIN h : i < j => h[i].time <= h[j].time

TiesAgree(h) == \A i, j \in DOMAIN h : h[i].time = h[j].time => h[i].price = h[j].price

\* C7 as claimed: a series delivered in ascending order and the same samples
\* delivered in reverse order give the identical result, for every series.
C7_OrderIndependent ==
    (FTHistorical /\ Fetched /\ Ascending(rec.history)) =>
        SelectAsOf(Reverse(rec.history), QueryInstant) = rec.result

\* C7 as amended: ascending and reverse delivery give the same returned time
\* (or None in both cases) for every series, and the identical result for every
\* series whose samples of equal timestamp carry equal prices.
C7_OrderIndependentUpToTies ==
    (FTHistorical /\ Fetched /\ Ascending(rec.history)) =>
        LET other == SelectAsOf(Reverse(rec.history), QueryInstant)
        IN  /\ other.out = rec.result.out
            /\ other.time = rec.result.time
            /\ TiesAgree(rec.history) => other = rec.result

\* An ascending series of two samples at different times, both at or before
\* T, of which the later one is returned.
C7_Witness ==
    /\ FTHistorical /\ Fetched /\ Len(rec.history) = 2
    /\ rec.history[1].time < rec.history[2].time
    /\ rec.history[2].time <= QueryInstant
    /\ rec.result.out = "price" /\ rec.result.time = rec.history[2].time

\* C8: get_latest_price asks for a 5-day lookback and, for a non-empty series
\* in any order, returns the sample with the greatest time.
C8_LatestIsChronologicallyLast ==
    (FTLatest /\ Fetched) =>
        /\ rec.days = 5
        /\ rec.history # << >> =>
              /\ rec.result.out = "price"
              /\ \A i \in DOMAIN rec.history : rec.history[i].time <= rec.result.time

\* C6: a TSP call with a fund code outside TSP_FUND_NAMES raises TSPError, the
\* message lists every valid code, and requests.get was not called.
C6_UnknownFundRejectedBeforeRequest ==
    (TSPCall /\ rec.symbol \notin Range(TSP_FUND_NAMES)) =>
        /\ rec.result.out = "raise"
        /\ rec.result.exc.type = "TSPError"
        /\ Range(TSP_FUND_NAMES) \subseteq Range(rec.result.exc.msg)
        /\ rec.requests = << >>

\* get_latest_price was called with an unknown fund code and raised.
C6_Witness ==
    /\ TSPCall /\ rec.op = "latest" /\ rec.symbol = "TFund"
    /\ rec.result.out = "raise"

\* The Close values the response carries, and the samples of its well-formed rows.
ClaimedCloses(data) ==
    IF "Elements" \notin DOMAIN data THEN << >>
    ELSE LET ps == SelectSeq(data.Elements, LAMBDA e : e.Type = "price")
         IN  IF ps = << >> \/ "ComponentSeries" \notin DOMAIN ps[1] THEN << >>
             ELSE LET cs == SelectSeq(ps[1].ComponentSeries, LAMBDA c : c.Type = "Close")
                  IN  IF cs = << >> \/ "Values" \notin DOMAIN cs[1] THEN << >>
                      ELSE cs[1].Values

RECURSIVE WellFormedRows(_, _, _)
WellFormedRows(dates, closes, i) ==
    IF i > Len(dates) THEN << >>
    ELSE (IF i <= Len(closes) /\ closes[i].k = "num" /\ dates[i].k = "iso"
          THEN <<[time |-> dates[i].t, price |-> closes[i].n]>> ELSE << >>)
         \o WellFormedRows(dates, closes, i + 1)

\* C10: for a response that is a JSON object, _fetch_history does not raise
\* and returns exactly the samples of the rows whose value is present and not
\* null and whose date parses, in their order.
C10_BadRowsSkipped ==
    (rec.provider = "ft" /\ rec.days # 0 /\ rec.reply.kind = "object") =>
        /\ rec.raised = NoExc
        /\ rec.history = WellFormedRows(DictGet(rec.reply.data, "Dates", << >>),
                                        ClaimedCloses(rec.reply.data), 1)

\* The fetched series is empty: for FT no Dates, no Elements, no price element
\* or no Close component; for TSP a successful CSV reply without data rows.
EmptySeries ==
    \/ /\ rec.provider = "ft" /\ rec.days # 0 /\ rec.reply.kind = "object"
       /\ \/ DictGet(rec.reply.data, "Dates", << >>) = << >>
          \/ DictGet(rec.reply.data, "Elements", << >>) = << >>
          \/ \A i \in DOMAIN rec.reply.data.Elements :
                \/ rec.reply.data.Elements[i].Type # "price"
                \/ "ComponentSeries" \notin DOMAIN rec.reply.data.Elements[i]
                \/ \A c \in DOMAIN rec.reply.data.Elements[i].ComponentSeries :
                      rec.reply.data.Elements[i].ComponentSeries[c].Type # "Close"
    \/ /\ TSPCall /\ rec.symbol \in Range(TSP_FUND_NAMES)
       /\ rec.reply.kind = "response" /\ rec.reply.ok /\ rec.reply.rows = << >>

\* C4: with an empty series both public methods of both sources return None
\* and raise nothing.
C4_EmptySeriesIsNotFound == EmptySeries => rec.result.out = "none"

\* C5: whatever a public method of either source raises is that source's own
\* error kind, and its message carries the symbol.
C5_OnlyProviderErrorsEscape ==
    (rec.provider \in {"ft", "tsp"} /\ rec.result.out = "raise") =>
        /\ rec.result.exc.type = (IF rec.provider = "ft" THEN "FTError" ELSE "TSPError")
        /\ rec.symbol \in Range(rec.result.exc.msg)

====
